---- MODULE Spec2Model ----
(***************************************************************************)
(* CommandPad: a desktop companion (src/companion_app.py) polls the OS     *)
(* volume and media session and writes text messages to a serial port; the *)
(* macropad firmware (src/Firmware/main.py) reads them once per matrix     *)
(* scan and drives a 20-column OLED label.                                 *)
(*                                                                         *)
(* Strings are sequences of one-character strings.  Characters that are    *)
(* not printable ASCII are written as tokens: LF, CR, TAB, Backslash, and  *)
(* the two emoji of the firmware (Note, Speaker), each ONE character.      *)
(*                                                                         *)
(* Time is counted in units of 0.3 s, the greatest common divisor of the   *)
(* firmware's three thresholds (0.3 s, 3 s, 30 s).                         *)
(***************************************************************************)
EXTENDS Integers, Sequences, FiniteSets, TLC

VARIABLES
    oled,        \* the OledManager singleton: a record of its fields
    now,         \* time.monotonic() of the firmware
    rx,          \* bytes pending on the firmware's serial input
    rpc,         \* where the scan loop is: "scan", "input", "tick", "idle"
    ev,          \* history: the last handler that ran, its input, the state before it
    idle_t0,     \* history: when is_playing last became false with no message since, or -1
    lt,          \* history: the previous tick(): its time (-1: none yet), the state it left
    cycles,      \* scan cycles completed
    nmsg,        \* lines delivered so far
    running,         \* CommandPadCompanion.running
    serial_conn,     \* CommandPadCompanion.serial_conn: "none", "open", "closed"
    last_volume,     \* CommandPadCompanion.last_volume
    last_media_info, \* CommandPadCompanion.last_media_info: <<>> is {}, <<m>> a dict
    wire,            \* what serial_conn.write has put on the transport, write by write
    spc,             \* run(): "new", "running", "exit"
    vpc,             \* monitor_volume: "off", "loop", "send", "exit"
    mpc,             \* monitor_media: "off", "loop", "send", "exit"
    vcur,            \* monitor_volume's current_volume
    mcur,            \* monitor_media's media_info
    vlog,            \* history: each volume poll: what it read, the message it handed
                     \*   to send_to_macropad, whether that call is still to come,
                     \*   the connection serial_conn.write found, whether it wrote
    mlog,            \* history: each media poll, likewise
    c_in,            \* codec round trip: the message, its line, what the line decodes to
    c_line,
    c_out,
    c_stage,
    s_stage,         \* STOP applied to the display state, then once more: "off",
                     \*   "once", "twice", and what each application left
    s_once,
    s_twice

recvVars == <<oled, now, rx, rpc, ev, idle_t0, lt, cycles, nmsg>>
sendVars == <<running, serial_conn, last_volume, last_media_info, wire,
              spc, vpc, mpc, vcur, mcur, vlog, mlog>>
codecVars == <<c_in, c_line, c_out, c_stage>>
stopVars == <<s_stage, s_once, s_twice>>

vars == <<recvVars, sendVars, codecVars, stopVars>>

----------------------------------------------------------------------------
(* Characters and Python's str operations *)

LF == "<LF>"
CR == "<CR>"
TAB == "<TAB>"
Backslash == "<BACKSLASH>"
Note == "<U+1F3B5>"
Speaker == "<U+1F50A>"

Whitespace == {" ", LF, CR, TAB}
Digits == <<"0", "1", "2", "3", "4", "5", "6", "7", "8", "9">>
DigitSet == {Digits[i] : i \in 1..10}

Min(a, b) == IF a < b THEN a ELSE b

\* s[:n]
Take(s, n) == SubSeq(s, 1, Min(n, Len(s)))

\* s[n:]
Drop(s, n) == SubSeq(s, n + 1, Len(s))

\* s[a:b]
Slice(s, a, b) == SubSeq(s, a + 1, Min(b, Len(s)))

\* s.startswith(p)
StartsWith(s, p) == Len(s) >= Len(p) /\ SubSeq(s, 1, Len(p)) = p

\* index of the first c in s, 0 when there is none
RECURSIVE IndexFrom(_, _, _)
IndexFrom(s, c, i) ==
    IF i > Len(s) THEN 0
    ELSE IF s[i] = c THEN i
    ELSE IndexFrom(s, c, i + 1)

IndexOf(s, c) == IndexFrom(s, c, 1)

\* s.split(sep): always at least one part
RECURSIVE Split(_, _)
Split(s, sep) ==
    LET i == IndexOf(s, sep)
    IN  IF i = 0 THEN <<s>>
        ELSE <<SubSeq(s, 1, i - 1)>> \o Split(Drop(s, i), sep)

RECURSIVE LStrip(_)
LStrip(s) ==
    IF s # <<>> /\ s[1] \in Whitespace THEN LStrip(Tail(s)) ELSE s

RECURSIVE RStrip(_)
RStrip(s) ==
    IF s # <<>> /\ s[Len(s)] \in Whitespace
    THEN RStrip(SubSeq(s, 1, Len(s) - 1))
    ELSE s

\* s.strip()
Strip(s) == RStrip(LStrip(s))

DigitValue(c) == CHOOSE d \in 0..9 : Digits[d + 1] = c

RECURSIVE DigitsValue(_, _)
DigitsValue(s, acc) ==
    IF s = <<>> THEN acc
    ELSE IF s[1] = "_" THEN DigitsValue(Tail(s), acc)
    ELSE DigitsValue(Tail(s), 10 * acc + DigitValue(s[1]))

\* the digits part of an int() literal: digits, single underscores between them
WellFormedDigits(s) ==
    /\ s # <<>>
    /\ \A i \in 1..Len(s) : s[i] \in DigitSet \/ s[i] = "_"
    /\ s[1] # "_"
    /\ s[Len(s)] # "_"
    /\ \A i \in 1..(Len(s) - 1) : ~(s[i] = "_" /\ s[i + 1] = "_")

\* int(s): ok is FALSE where Python raises ValueError
ParseInt(s) ==
    LET t == Strip(s)
        signed == t # <<>> /\ t[1] \in {"+", "-"}
        body == IF signed THEN Tail(t) ELSE t
    IN  IF WellFormedDigits(body)
        THEN [ok |-> TRUE,
              val |-> IF signed /\ t[1] = "-"
                      THEN 0 - DigitsValue(body, 0)
                      ELSE DigitsValue(body, 0)]
        ELSE [ok |-> FALSE, val |-> 0]

RECURSIVE NatToStr(_)
NatToStr(n) ==
    IF n < 10 THEN <<Digits[n + 1]>>
    ELSE NatToStr(n \div 10) \o <<Digits[(n % 10) + 1]>>

\* str(n) of an int, as an f-string formats it
IntToStr(n) == IF n < 0 THEN <<"-">> \o NatToStr(0 - n) ELSE NatToStr(n)

----------------------------------------------------------------------------
(* Firmware: OledManager *)

ScrollInterval == 1
VolTimeout == 10
SleepTimeout == 100
VisibleChars == 20
ScrollGap == 5

Ready ==
    <<"C", "o", "m", "m", "a", "n", "d", "P", "a", "d", " ",
      "R", "e", "a", "d", "y">>

\* OledManager.__init__ at time t
OledInit(t) ==
    [text |-> <<>>,
     current_text |-> Ready,
     last_vol_time |-> 0,
     showing_volume |-> FALSE,
     scroll_offset |-> 0,
     scroll_pause |-> 0,
     display_on |-> TRUE,
     is_playing |-> FALSE,
     last_activity |-> t]

wake_display(d) == [d EXCEPT !.display_on = TRUE]

sleep_display(d) == [d EXCEPT !.display_on = FALSE, !.text = <<>>]

\* f"<speaker> Volume: {level}%"
VolumeText(level) ==
    <<Speaker, " ", "V", "o", "l", "u", "m", "e", ":", " ">>
        \o IntToStr(level) \o <<"%">>

set_volume(d, level, t) ==
    LET w == IF ~d.display_on THEN wake_display(d) ELSE d
    IN  [w EXCEPT !.text = VolumeText(level),
                  !.last_vol_time = t,
                  !.showing_volume = TRUE,
                  !.scroll_offset = 0,
                  !.last_activity = t]

\* f"<note> {artist} - {title}" or f"<note> {title}"
Banner(title, artist) ==
    IF artist # <<>>
    THEN <<Note, " ">> \o artist \o <<" ", "-", " ">> \o title
    ELSE <<Note, " ">> \o title

\* mutant: a playing MEDIA message ends the volume display
set_media_info_EndsVolume(d, title, artist, playing, t) ==
    LET p == [d EXCEPT !.is_playing = playing]
    IN  IF playing
        THEN LET w == IF ~p.display_on THEN wake_display(p) ELSE p
             IN  [w EXCEPT !.current_text = Banner(title, artist),
                           !.last_activity = t,
                           !.showing_volume = FALSE]
        ELSE p

\* mutant: a MEDIA message with playing flag 0 turns the display off
set_media_info_PauseSleeps(d, title, artist, playing, t) ==
    LET p == [d EXCEPT !.is_playing = playing]
    IN  IF playing
        THEN LET w == IF ~p.display_on THEN wake_display(p) ELSE p
             IN  [w EXCEPT !.current_text = Banner(title, artist),
                           !.last_activity = t]
        ELSE sleep_display(p)

set_media_info(d, title, artist, playing, t) ==
    LET p == [d EXCEPT !.is_playing = playing]
    IN  IF playing
        THEN LET w == IF ~p.display_on THEN wake_display(p) ELSE p
             IN  [w EXCEPT !.current_text = Banner(title, artist),
                           !.last_activity = t]
        ELSE p

\* mutant: the sleep fires at 30 s, not after it
InactivityDue_AtTimeout(d, t) ==
    ~d.is_playing /\ t - d.last_activity >= SleepTimeout

\* tick: "if not self.is_playing and now - self.last_activity > 30"
InactivityDue(d, t) == ~d.is_playing /\ t - d.last_activity > SleepTimeout

\* mutant: the volume display ends at 3 s, not after it
VolumeExpired_AtTimeout(d, t) ==
    d.showing_volume /\ t - d.last_vol_time >= VolTimeout

\* tick: "if self.showing_volume and now - self.last_vol_time > 3"
VolumeExpired(d, t) == d.showing_volume /\ t - d.last_vol_time > VolTimeout

\* tick: "if now - self.scroll_pause > 0.3"
ScrollDue(d, t) == t - d.scroll_pause > ScrollInterval

\* mutant: the cursor wraps at the end of the text, without the gap
NextOffset_NoGap(d) == (d.scroll_offset + 1) % Len(d.current_text)

\* tick: "(self.scroll_offset + 1) % (len(full_text) + 5)"
NextOffset(d) == (d.scroll_offset + 1) % (Len(d.current_text) + ScrollGap)

Spaces(n) == [i \in 1..n |-> " "]

\* tick: "padded[self.scroll_offset:self.scroll_offset + visible_chars]"
Window(full_text, offset) ==
    Slice(full_text \o Spaces(ScrollGap), offset, offset + VisibleChars)

\* tick: the rendering block, "if not self.showing_volume and self.display_on"
Render(d, t) ==
    IF ~d.showing_volume /\ d.display_on
    THEN IF Len(d.current_text) <= VisibleChars
         THEN [d EXCEPT !.text = d.current_text]
         ELSE LET s == IF ScrollDue(d, t)
                       THEN [d EXCEPT !.scroll_offset = NextOffset(d),
                                      !.scroll_pause = t]
                       ELSE d
              IN  [s EXCEPT !.text = Window(s.current_text, s.scroll_offset)]
    ELSE d

tick(d, t) ==
    IF InactivityDue(d, t)
    THEN IF d.display_on THEN sleep_display(d) ELSE d
    ELSE LET v == IF VolumeExpired(d, t)
                  THEN [d EXCEPT !.showing_volume = FALSE,
                                 !.scroll_offset = 0,
                                 !.scroll_pause = 0]
                  ELSE d
         IN  Render(v, t)

VolPrefix == <<"V", "O", "L", ":">>
MediaPrefix == <<"M", "E", "D", "I", "A", ":">>
StopWord == <<"S", "T", "O", "P">>

\* mutant: only the bare word STOP stops
IsStop_Exact(data) == data = StopWord

\* process_serial_data: "data.startswith("STOP")"
IsStop(data) == StartsWith(data, StopWord)

\* mutant: the artist segment is required
EnoughParts_Three(parts) == Len(parts) >= 3

\* process_serial_data: "if len(parts) >= 2"
EnoughParts(parts) == Len(parts) >= 2

\* What process_serial_data makes of a line before it touches the display:
\* kind "none" where it does nothing (no branch taken, or the except clause).
Decode(data) ==
    LET none == [kind |-> "none", level |-> 0, is_playing |-> FALSE,
                 title |-> <<>>, artist |-> <<>>]
    IN  IF StartsWith(data, VolPrefix)
        THEN LET r == ParseInt(Drop(data, 4))
             IN  IF r.ok THEN [none EXCEPT !.kind = "vol", !.level = r.val]
                 ELSE none
        ELSE IF StartsWith(data, MediaPrefix)
        THEN LET parts == Split(Drop(data, 6), "|")
             IN  IF EnoughParts(parts)
                 THEN [none EXCEPT !.kind = "media",
                                   !.is_playing = (parts[1] = <<"1">>),
                                   !.title = parts[2],
                                   !.artist = IF Len(parts) > 2 THEN parts[3]
                                              ELSE <<>>]
                 ELSE none
        ELSE IF IsStop(data)
        THEN [none EXCEPT !.kind = "stop"]
        ELSE none

\* mutant: STOP also moves the scroll cursor
process_serial_data_StopScrolls(d, data, t) ==
    LET m == Decode(data)
    IN  CASE m.kind = "vol" -> set_volume(d, m.level, t)
          [] m.kind = "media" ->
                set_media_info(d, m.title, m.artist, m.is_playing, t)
          [] m.kind = "stop" ->
                [d EXCEPT !.is_playing = FALSE, !.current_text = Ready,
                          !.scroll_offset = d.scroll_offset + 1]
          [] OTHER -> d

process_serial_data(d, data, t) ==
    LET m == Decode(data)
    IN  CASE m.kind = "vol" -> set_volume(d, m.level, t)
          [] m.kind = "media" ->
                set_media_info(d, m.title, m.artist, m.is_playing, t)
          [] m.kind = "stop" ->
                [d EXCEPT !.is_playing = FALSE, !.current_text = Ready]
          [] OTHER -> d

----------------------------------------------------------------------------
(* Firmware: the scan loop (custom_after_matrix_scan) and its serial input *)

\* supervisor.runtime.serial_bytes_available
BytesAvailable(buf) == buf # <<>>

\* input() can return: a whole line is buffered
HasLine(buf) == IndexOf(buf, LF) # 0

\* what input() returns, and what it leaves in the buffer
FirstLine(buf) == SubSeq(buf, 1, IndexOf(buf, LF) - 1)
AfterFirstLine(buf) == Drop(buf, IndexOf(buf, LF))

\* Bounds of the receiver runs
MaxCycles == 3
MaxMsgs == 2
MaxScrollMsgs == 1
MaxReplaceMsgs == 2
MaxScrollTime == 56

\* Durations of a scan cycle, in 0.3 s; a threshold is reached by one cycle and
\* passed by the scroll interval after it
Steps == {ScrollInterval, VolTimeout, SleepTimeout}
ScrollSteps == {ScrollInterval, ScrollInterval + 1}

TitleLong ==
    <<"a", "b", "c", "d", "e", "f", "g", "h", "i", "j", "k", "l", "m",
      "n", "o", "p", "q", "r", "s">>
TitleLonger == TitleLong \o <<"t", "u", "v">>
TitleSong == <<"S", "o", "n", "g">>
ArtistArt == <<"A", "r", "t">>
OnlyTitle == <<"O", "n", "l", "y", "T", "i", "t", "l", "e">>

L_Vol42 == VolPrefix \o <<"4", "2">>
L_MediaLong == MediaPrefix \o <<"1", "|">> \o TitleLong \o <<"|">>
L_MediaLonger == MediaPrefix \o <<"1", "|">> \o TitleLonger \o <<"|">>
L_MediaArt == MediaPrefix \o <<"1", "|">> \o TitleSong \o <<"|">> \o ArtistArt
L_Paused == MediaPrefix \o <<"0", "|">> \o TitleSong \o <<"|">> \o ArtistArt
L_Stop == StopWord
L_OnlyTitle == MediaPrefix \o <<"1", "|">> \o OnlyTitle
L_OneSegment == MediaPrefix \o OnlyTitle
L_VolBad == VolPrefix \o <<"4", "x">>
L_VolEmpty == VolPrefix
L_Unknown == <<"P", "I", "N", "G">>
L_Stopped == StopWord \o <<"P", "E", "D">>

GoodLines == {L_Vol42, L_MediaLong, L_MediaArt, L_Paused, L_Stop, L_OnlyTitle}
BadLines == {L_OneSegment, L_VolBad, L_VolEmpty, L_Unknown, L_Stopped}
RxLines == GoodLines \cup BadLines
ScrollLines == {L_MediaLong, L_MediaLonger}

\* Beginnings of a line whose end has not arrived yet; the last one is what the
\* companion writes for a volume of 42
PartialChunks == {<<"S", "T">>, L_Vol42 \o <<Backslash, "n">>}
RestChunks == {<<"O", "P">>}

RecvInit ==
    /\ now = 0
    /\ oled = OledInit(0)
    /\ rx = <<>>
    /\ rpc = "scan"
    /\ ev = [op |-> "init", data |-> <<>>, pre |-> OledInit(0), at |-> 0,
             gap |-> 0 - 1, seen |-> OledInit(0)]
    /\ idle_t0 = 0
    /\ lt = [at |-> 0 - 1, post |-> OledInit(0)]
    /\ cycles = 0
    /\ nmsg = 0

\* history of a handler that runs now: its input, the state before it, the time
\* since the previous tick() (-1: there was none) and the state that tick left
Event(op, data) ==
    [op |-> op, data |-> data, pre |-> oled, at |-> now,
     gap |-> IF lt.at < 0 THEN 0 - 1 ELSE now - lt.at, seen |-> lt.post]

\* the serial host delivers a whole line
Arrive(l) ==
    /\ rpc = "scan"
    /\ rx = <<>>
    /\ rx' = l \o <<LF>>
    /\ nmsg' = nmsg + 1
    /\ UNCHANGED <<oled, now, rpc, ev, idle_t0, lt, cycles>>
    /\ UNCHANGED <<sendVars, codecVars, stopVars>>

\* the serial host delivers the beginning of a line
ArrivePartial(c) ==
    /\ rpc = "scan"
    /\ rx = <<>>
    /\ rx' = c
    /\ nmsg' = nmsg + 1
    /\ UNCHANGED <<oled, now, rpc, ev, idle_t0, lt, cycles>>
    /\ UNCHANGED <<sendVars, codecVars, stopVars>>

\* ... and, while input() waits, its end
ArriveRest(c) ==
    /\ rpc = "input"
    /\ ~HasLine(rx)
    /\ rx' = rx \o c \o <<LF>>
    /\ UNCHANGED <<oled, now, rpc, ev, idle_t0, lt, cycles, nmsg>>
    /\ UNCHANGED <<sendVars, codecVars, stopVars>>

\* data = input().strip(); oled.process_serial_data(data)
ReadAndProcess ==
    LET data == Strip(FirstLine(rx))
        post == process_serial_data(oled, data, now)
    IN  /\ oled' = post
        /\ rx' = AfterFirstLine(rx)
        /\ ev' = Event("serial", data)
        /\ idle_t0' = IF oled.is_playing /\ ~post.is_playing THEN now ELSE 0 - 1
        /\ rpc' = "tick"

\* check_serial_input, up to where it returns or input() blocks
check_serial_input ==
    /\ rpc = "scan"
    /\ IF ~BytesAvailable(rx)
       THEN /\ rpc' = "tick"
            /\ ev' = Event("nodata", <<>>)
            /\ UNCHANGED <<oled, rx, idle_t0>>
       ELSE IF HasLine(rx)
       THEN ReadAndProcess
       ELSE /\ rpc' = "input"
            /\ UNCHANGED <<oled, rx, ev, idle_t0>>
    /\ UNCHANGED <<now, lt, cycles, nmsg>>
    /\ UNCHANGED <<sendVars, codecVars, stopVars>>

\* input() returns once the line's terminator has arrived
InputReturns ==
    /\ rpc = "input"
    /\ HasLine(rx)
    /\ ReadAndProcess
    /\ UNCHANGED <<now, lt, cycles, nmsg>>
    /\ UNCHANGED <<sendVars, codecVars, stopVars>>

\* oled.tick(), the last statement of custom_after_matrix_scan
Tick ==
    /\ rpc = "tick"
    /\ oled' = tick(oled, now)
    /\ ev' = Event("tick", <<>>)
    /\ lt' = [at |-> now, post |-> oled']
    /\ rpc' = "idle"
    /\ UNCHANGED <<now, rx, idle_t0, cycles, nmsg>>
    /\ UNCHANGED <<sendVars, codecVars, stopVars>>

\* time passes until the next matrix scan, or while input() blocks
Elapse(d) ==
    /\ rpc \in {"idle", "input"}
    /\ now' = now + d
    /\ rpc' = IF rpc = "idle" THEN "scan" ELSE rpc
    /\ UNCHANGED <<oled, rx, ev, idle_t0, lt, nmsg>>
    /\ UNCHANGED <<sendVars, codecVars, stopVars>>

\* ... in a run of at most MaxCycles scan cycles
Advance(d) ==
    /\ cycles < MaxCycles
    /\ Elapse(d)
    /\ cycles' = cycles + 1

\* ... in a run that ends at MaxScrollTime
ScrollAdvance(d) ==
    /\ now + d <= MaxScrollTime
    /\ Elapse(d)
    /\ UNCHANGED cycles

----------------------------------------------------------------------------
(* Companion: CommandPadCompanion *)

TitleMax == 50
ArtistMax == 30
PlayingStatus == 4
Unset == -1

Unknown == <<"U", "n", "k", "n", "o", "w", "n">>

\* get_media_info: the dict it builds from the current session's properties
MediaInfo(props) ==
    [title |-> IF props.title # <<>> THEN props.title ELSE Unknown,
     artist |-> props.artist,
     is_playing |-> (props.status = PlayingStatus)]

\* monitor_volume: f"VOL:{current_volume}"
VolLine(v) == VolPrefix \o IntToStr(v)

\* mutant: the artist is written before the title
MediaLine_ArtistFirst(info) ==
    MediaPrefix \o (IF info.is_playing THEN <<"1">> ELSE <<"0">>) \o <<"|">>
        \o Take(info.artist, ArtistMax) \o <<"|">> \o Take(info.title, TitleMax)

\* monitor_media: f"MEDIA:{is_playing}|{title}|{artist}", title[:50], artist[:30]
MediaLine(info) ==
    MediaPrefix \o (IF info.is_playing THEN <<"1">> ELSE <<"0">>) \o <<"|">>
        \o Take(info.title, TitleMax) \o <<"|">> \o Take(info.artist, ArtistMax)

\* send_to_macropad: f"{message}\\n", a backslash and the letter n
Frame(message) == message \o <<Backslash, "n">>

\* send_to_macropad: the transport after the call; ok is FALSE where write or
\* flush raises (the except clause prints and returns)
send_to_macropad(message, ok) ==
    IF serial_conn = "none" THEN wire
    ELSE IF serial_conn = "open" /\ ok THEN Append(wire, Frame(message))
    ELSE wire

\* send_to_macropad: whether write and flush went through
Written(ok) == serial_conn = "open" /\ ok

\* mutant: every successful reading is sent
VolumeChanged_Always(current_volume) == TRUE

\* monitor_volume: "current_volume != self.last_volume"
VolumeChanged(current_volume) == current_volume # last_volume

\* mutant: STOP on every poll that finds no session
StopDue_Always(media_info) == media_info = <<>>

\* monitor_media: "elif not media_info: if self.last_media_info"
StopDue(media_info) == media_info = <<>> /\ last_media_info # <<>>

\* monitor_media: "if media_info and media_info != self.last_media_info"
MediaChanged(media_info) ==
    media_info # <<>> /\ media_info # last_media_info

\* Bounds of the companion runs
MaxPolls == 5
MaxFairPolls == 3

VolReadings == {50, 51}

Song == [title |-> TitleSong, artist |-> ArtistArt, status |-> PlayingStatus]
SongPaused == [Song EXCEPT !.status = PlayingStatus + 1]
Sessions == {Song, SongPaused}

SendInit ==
    /\ running = FALSE
    /\ serial_conn = "none"
    /\ last_volume = Unset
    /\ last_media_info = <<>>
    /\ wire = <<>>
    /\ spc = "new"
    /\ vpc = "off"
    /\ mpc = "off"
    /\ vcur = 0
    /\ mcur = <<>>
    /\ vlog = <<>>
    /\ mlog = <<>>

PollsLeft == Len(vlog) + Len(mlog) < MaxPolls

\* run / run_async up to the start of the loops: connected says whether
\* connect_serial succeeds, windows_media is WINDOWS_MEDIA
Run(connected, windows_media) ==
    /\ spc = "new"
    /\ running' = TRUE
    /\ IF connected
       THEN /\ serial_conn' = "open"
            /\ spc' = "running"
            /\ vpc' = "loop"
            /\ mpc' = IF windows_media THEN "loop" ELSE "off"
       ELSE /\ spc' = "exit"
            /\ UNCHANGED <<serial_conn, vpc, mpc>>
    /\ UNCHANGED <<last_volume, last_media_info, wire, vcur, mcur, vlog, mlog>>
    /\ UNCHANGED <<recvVars, codecVars, stopVars>>

\* monitor_volume: one pass of the loop with a successful reading, up to the send
VolPoll(v) ==
    /\ vpc = "loop"
    /\ running
    /\ PollsLeft
    /\ vlog' = Append(vlog, [ok |-> TRUE, r |-> v, sent |-> <<>>,
                              pending |-> VolumeChanged(v),
                              conn |-> "none", written |-> FALSE])
    /\ IF VolumeChanged(v)
       THEN vcur' = v /\ vpc' = "send"
       ELSE UNCHANGED <<vcur, vpc>>
    /\ UNCHANGED <<running, serial_conn, last_volume, last_media_info, wire,
                   spc, mpc, mcur, mlog>>
    /\ UNCHANGED <<recvVars, codecVars, stopVars>>

\* mutant: a failed reading ends the volume thread
VolPollFails_EndsLoop ==
    /\ vpc = "loop"
    /\ running
    /\ PollsLeft
    /\ vlog' = Append(vlog, [ok |-> FALSE, r |-> 0, sent |-> <<>>,
                              pending |-> FALSE,
                              conn |-> "none", written |-> FALSE])
    /\ vpc' = "exit"
    /\ UNCHANGED <<running, serial_conn, last_volume, last_media_info, wire,
                   spc, mpc, vcur, mcur, mlog>>
    /\ UNCHANGED <<recvVars, codecVars, stopVars>>

\* monitor_volume: one pass in which get_volume_level returns None
VolPollFails ==
    /\ vpc = "loop"
    /\ running
    /\ PollsLeft
    /\ vlog' = Append(vlog, [ok |-> FALSE, r |-> 0, sent |-> <<>>,
                              pending |-> FALSE,
                              conn |-> "none", written |-> FALSE])
    /\ UNCHANGED <<running, serial_conn, last_volume, last_media_info, wire,
                   spc, vpc, mpc, vcur, mcur, mlog>>
    /\ UNCHANGED <<recvVars, codecVars, stopVars>>

\* monitor_volume: send_to_macropad(f"VOL:{current_volume}"); last_volume = current_volume
VolSend(ok) ==
    /\ vpc = "send"
    /\ wire' = send_to_macropad(VolLine(vcur), ok)
    /\ last_volume' = vcur
    /\ vlog' = [vlog EXCEPT ![Len(vlog)].sent = VolLine(vcur),
                             ![Len(vlog)].pending = FALSE,
                             ![Len(vlog)].conn = serial_conn,
                             ![Len(vlog)].written = Written(ok)]
    /\ vpc' = "loop"
    /\ UNCHANGED <<running, serial_conn, last_media_info, spc, mpc, vcur,
                   mcur, mlog>>
    /\ UNCHANGED <<recvVars, codecVars, stopVars>>

\* monitor_volume: "while self.running" ends the thread
VolExit ==
    /\ vpc = "loop"
    /\ ~running
    /\ vpc' = "exit"
    /\ UNCHANGED <<running, serial_conn, last_volume, last_media_info, wire,
                   spc, mpc, vcur, mcur, vlog, mlog>>
    /\ UNCHANGED <<recvVars, codecVars, stopVars>>

\* monitor_media: one pass of the loop, up to the send.  read is "session",
\* "absent" (no current session) or "failed" (get_media_info caught an exception);
\* media_info is what get_media_info returned: <<>> is None
MediaPass(read, media_info) ==
    /\ mpc = "loop"
    /\ running
    /\ PollsLeft
    /\ mlog' = Append(mlog, [read |-> read, info |-> media_info, sent |-> <<>>,
                              pending |-> (MediaChanged(media_info)
                                              \/ StopDue(media_info)),
                              before |-> last_media_info,
                              conn |-> "none", written |-> FALSE])
    /\ IF MediaChanged(media_info) \/ StopDue(media_info)
       THEN mcur' = media_info /\ mpc' = "send"
       ELSE UNCHANGED <<mcur, mpc>>
    /\ UNCHANGED <<running, serial_conn, last_volume, last_media_info, wire,
                   spc, vpc, vcur, vlog>>
    /\ UNCHANGED <<recvVars, codecVars, stopVars>>

MediaPoll(props) == MediaPass("session", <<MediaInfo(props)>>)
MediaPollAbsent == MediaPass("absent", <<>>)
MediaPollFails == MediaPass("failed", <<>>)

\* monitor_media: send_to_macropad(message) or send_to_macropad("STOP"), then
\* last_media_info = media_info or {}
MediaSend(ok) ==
    /\ mpc = "send"
    /\ LET message == IF mcur # <<>> THEN MediaLine(mcur[1]) ELSE StopWord
       IN  /\ wire' = send_to_macropad(message, ok)
           /\ mlog' = [mlog EXCEPT ![Len(mlog)].sent = message,
                                    ![Len(mlog)].pending = FALSE,
                                    ![Len(mlog)].conn = serial_conn,
                                    ![Len(mlog)].written = Written(ok)]
    /\ last_media_info' = mcur
    /\ mpc' = "loop"
    /\ UNCHANGED <<running, serial_conn, last_volume, spc, vpc, vcur, mcur,
                   vlog>>
    /\ UNCHANGED <<recvVars, codecVars, stopVars>>

\* KeyboardInterrupt: the finally clause of run_async / run; the media coroutine
\* ends with the event loop, the volume thread runs on
Interrupt ==
    /\ spc = "running"
    /\ running' = FALSE
    /\ serial_conn' = "closed"
    /\ spc' = "exit"
    /\ mpc' = IF mpc = "off" THEN "off" ELSE "exit"
    /\ UNCHANGED <<last_volume, last_media_info, wire, vpc, vcur, mcur,
                   vlog, mlog>>
    /\ UNCHANGED <<recvVars, codecVars, stopVars>>

----------------------------------------------------------------------------
(* The codec: the companion's lines through the firmware's process_serial_data *)

NoMessage ==
    [kind |-> "none", level |-> 0, is_playing |-> FALSE,
     title |-> <<>>, artist |-> <<>>]

Letters(n) == [i \in 1..n |-> "x"]

Title51 == <<"T">> \o Letters(TitleMax)
TitlePipe == <<"A", "|", "B">>
TitleLatePipe == Letters(TitleMax) \o <<"|", "z">>
Artist31 == <<"R">> \o Letters(ArtistMax)
ArtistPipe == <<"X", "|", "Y">>

CodecTitles == {TitleSong, Unknown, TitleLong, Title51, TitlePipe, TitleLatePipe}
CodecArtists == {<<>>, ArtistArt, Artist31, ArtistPipe}
MaxLevel == 100

CodecInputs ==
    {[NoMessage EXCEPT !.kind = "vol", !.level = v] : v \in 0..MaxLevel}
    \cup {[NoMessage EXCEPT !.kind = "media", !.is_playing = p,
                            !.title = t, !.artist = a] :
            p \in BOOLEAN, t \in CodecTitles, a \in CodecArtists}
    \cup {[NoMessage EXCEPT !.kind = "stop"]}

\* the line monitor_volume / monitor_media hands to send_to_macropad
Compose(m) ==
    CASE m.kind = "vol" -> VolLine(m.level)
      [] m.kind = "media" ->
            MediaLine([title |-> m.title, artist |-> m.artist,
                       is_playing |-> m.is_playing])
      [] OTHER -> StopWord

CodecOff ==
    /\ c_in = NoMessage
    /\ c_line = <<>>
    /\ c_out = NoMessage
    /\ c_stage = "off"

CodecInit ==
    /\ c_in \in CodecInputs
    /\ c_line = <<>>
    /\ c_out = NoMessage
    /\ c_stage = "input"

Encode ==
    /\ c_stage = "input"
    /\ c_line' = Compose(c_in)
    /\ c_stage' = "line"
    /\ UNCHANGED <<c_in, c_out>>
    /\ UNCHANGED <<recvVars, sendVars, stopVars>>

Parse ==
    /\ c_stage = "line"
    /\ c_out' = Decode(c_line)
    /\ c_stage' = "decoded"
    /\ UNCHANGED <<c_in, c_line>>
    /\ UNCHANGED <<recvVars, sendVars, stopVars>>

----------------------------------------------------------------------------
(* STOP handled twice: process_serial_data("STOP") on the state the scan loop
   has reached, and again on the state that call left *)

StopOff ==
    /\ s_stage = "off"
    /\ s_once = OledInit(0)
    /\ s_twice = OledInit(0)

StopOnce ==
    /\ s_stage = "off"
    /\ s_once' = process_serial_data(oled, StopWord, now)
    /\ s_stage' = "once"
    /\ UNCHANGED s_twice
    /\ UNCHANGED <<recvVars, sendVars, codecVars>>

StopTwice ==
    /\ s_stage = "once"
    /\ s_twice' = process_serial_data(s_once, StopWord, now)
    /\ s_stage' = "twice"
    /\ UNCHANGED s_once
    /\ UNCHANGED <<recvVars, sendVars, codecVars>>

----------------------------------------------------------------------------
(* Specifications *)

Init == RecvInit /\ SendInit /\ CodecOff /\ StopOff

Next ==
    \/ \E l \in RxLines : nmsg < MaxMsgs /\ Arrive(l)
    \/ \E c \in PartialChunks : nmsg < MaxMsgs /\ ArrivePartial(c)
    \/ \E c \in RestChunks : ArriveRest(c)
    \/ check_serial_input
    \/ InputReturns
    \/ Tick
    \/ \E d \in Steps : Advance(d)

Spec == Init /\ [][Next]_vars

\* The scan loop on long banners: cycles of 0.3 s and 0.6 s
NextScroll ==
    \/ \E l \in ScrollLines : nmsg < MaxScrollMsgs /\ Arrive(l)
    \/ check_serial_input
    \/ Tick
    \/ \E d \in ScrollSteps : ScrollAdvance(d)

SpecScroll == Init /\ [][NextScroll]_vars

\* The same loop with a second banner arriving while the first one scrolls
NextReplace ==
    \/ \E l \in ScrollLines : nmsg < MaxReplaceMsgs /\ Arrive(l)
    \/ check_serial_input
    \/ Tick
    \/ \E d \in ScrollSteps : ScrollAdvance(d)

SpecReplace == Init /\ [][NextReplace]_vars

\* The companion alone
NextSender ==
    \/ \E c \in BOOLEAN, w \in BOOLEAN : Run(c, w)
    \/ \E v \in VolReadings : VolPoll(v)
    \/ VolPollFails
    \/ \E ok \in BOOLEAN : VolSend(ok)
    \/ VolExit
    \/ \E p \in Sessions : MediaPoll(p)
    \/ MediaPollAbsent
    \/ MediaPollFails
    \/ \E ok \in BOOLEAN : MediaSend(ok)
    \/ Interrupt

SpecSender == Init /\ [][NextSender]_vars

\* The companion with its two loops scheduled fairly: the volume thread by the
\* OS, the media coroutine by the event loop.  Which way a poll or a write goes
\* (reading or failure) is left open.
FairPollsLeft == Len(vlog) + Len(mlog) < MaxFairPolls

VolStep ==
    \/ \E v \in VolReadings : FairPollsLeft /\ VolPoll(v)
    \/ FairPollsLeft /\ VolPollFails
    \/ \E ok \in BOOLEAN : VolSend(ok)
    \/ VolExit

MediaStep ==
    \/ \E p \in Sessions : FairPollsLeft /\ MediaPoll(p)
    \/ FairPollsLeft /\ MediaPollAbsent
    \/ FairPollsLeft /\ MediaPollFails
    \/ \E ok \in BOOLEAN : MediaSend(ok)

NextSenderFair ==
    \/ \E c \in BOOLEAN, w \in BOOLEAN : Run(c, w)
    \/ VolStep
    \/ MediaStep
    \/ Interrupt

SpecSenderFair ==
    Init /\ [][NextSenderFair]_vars /\ WF_vars(VolStep) /\ WF_vars(MediaStep)

\* One message through the codec
InitCodec == RecvInit /\ SendInit /\ CodecInit /\ StopOff

NextCodec == Encode \/ Parse

SpecCodec == InitCodec /\ [][NextCodec]_vars

\* The scan loop, and STOP applied twice to the display state it has reached
NextStop ==
    \/ s_stage = "off" /\ Next
    \/ StopOnce
    \/ StopTwice

SpecStop == Init /\ [][NextStop]_vars

----------------------------------------------------------------------------
(* Claims about the firmware *)

AfterSerial(data) == ev.op = "serial" /\ ev.data = data
AfterTick == ev.op = "tick"

\* C1 as stated: process_serial_data discards the line MEDIA:1|OnlyTitle, every
\* field of the display state being after the call what it was before it.
C1_OnlyTitleDiscarded == AfterSerial(L_OnlyTitle) => oled = ev.pre

\* C1 as amended: MEDIA:1|OnlyTitle has two segments and is applied as a playing
\* Media message with an empty artist (is_playing set, the banner "<note> OnlyTitle"
\* queued, last_activity refreshed, the display woken, nothing else touched); a
\* MEDIA payload of one segment, MEDIA:OnlyTitle, is discarded.
C1_OnlyTitleApplied ==
    /\ AfterSerial(L_OnlyTitle) =>
          oled = [ev.pre EXCEPT !.is_playing = TRUE,
                                !.current_text = <<Note, " ">> \o OnlyTitle,
                                !.last_activity = ev.at,
                                !.display_on = TRUE]
    /\ AfterSerial(L_OneSegment) => oled = ev.pre

C1_Witness ==
    /\ AfterSerial(L_OnlyTitle)
    /\ ~ev.pre.is_playing
    /\ oled.is_playing
    /\ oled.current_text = <<Note, " ">> \o OnlyTitle

\* C3 as stated: check_serial_input returns within the scan cycle whatever is
\* pending, so the loop is never inside input() waiting for the rest of a line.
C3_CheckSerialInputReturns == rpc # "input"

RxLevels == {42}
IsVolumeText(text) == \E v \in RxLevels : text = VolumeText(v)

\* C7: while showing_volume, a Tick up to 3 s after the VOL message leaves
\* showing_volume set and the volume string on the label; a Tick more than 3 s
\* after it, unless the inactivity check ends the Tick first, clears showing_volume.
C7_VolumeDisplayTimeout ==
    (AfterTick /\ ev.pre.showing_volume) =>
        /\ ev.at - ev.pre.last_vol_time <= VolTimeout =>
              /\ oled.showing_volume
              /\ oled.display_on
              /\ IsVolumeText(oled.text)
        /\ (/\ ev.at - ev.pre.last_vol_time > VolTimeout
            /\ ~(~ev.pre.is_playing
                    /\ ev.at - ev.pre.last_activity > SleepTimeout)) =>
              ~oled.showing_volume

\* a Tick later than 3 s after the VOL message ended the volume display, the
\* Tick at exactly 3 s having kept it
C7_Witness ==
    /\ AfterTick
    /\ ev.pre.showing_volume
    /\ ~oled.showing_volume
    /\ ev.at - ev.pre.last_vol_time = VolTimeout + 1
    /\ ev.gap = 1

\* this Tick and the one before it saw the same long banner, display on, no
\* volume shown
ScrollingSteadily ==
    /\ AfterTick
    /\ ev.gap >= 0
    /\ Len(ev.pre.current_text) > VisibleChars
    /\ ev.pre.current_text = ev.seen.current_text
    /\ ev.pre.display_on /\ ev.seen.display_on /\ oled.display_on
    /\ ~ev.pre.showing_volume /\ ~ev.seen.showing_volume

Advanced == oled.scroll_offset =
    (ev.pre.scroll_offset + 1) % (Len(ev.pre.current_text) + ScrollGap)

RenderedAtStart ==
    (/\ AfterTick
     /\ Len(oled.current_text) > VisibleChars
     /\ oled.display_on /\ ~oled.showing_volume
     /\ oled.scroll_offset = 0) =>
        oled.text = Take(oled.current_text, VisibleChars)

\* C8 as stated: Ticks at least 0.3 s apart, exactly 0.3 s included, each advance
\* scroll_offset by one modulo L+5, and a Tick rendering at offset 0 shows the
\* first 20 characters.
C8_ScrollAtLeastInterval ==
    /\ (ScrollingSteadily /\ ev.gap >= ScrollInterval) => Advanced
    /\ RenderedAtStart

\* C8 as amended: Ticks MORE than 0.3 s apart each advance scroll_offset by one
\* modulo L+5 (a Tick exactly 0.3 s after the last scroll step leaves it), so
\* from 0 it is 0 again after exactly L+5 such Ticks; a Tick rendering at
\* offset 0 shows the first 20 characters.
C8_ScrollAfterInterval ==
    /\ (ScrollingSteadily /\ ev.gap > ScrollInterval) => Advanced
    /\ (ScrollingSteadily /\ ev.pre.scroll_offset
            < Len(ev.pre.current_text) + ScrollGap - 1) =>
          oled.scroll_offset \in {ev.pre.scroll_offset, ev.pre.scroll_offset + 1}
    /\ RenderedAtStart

\* the cursor wrapped from L+4 to 0 and the first 20 characters are shown
C8_Witness ==
    /\ ScrollingSteadily
    /\ ev.gap > ScrollInterval
    /\ ev.pre.scroll_offset = Len(ev.pre.current_text) + ScrollGap - 1
    /\ oled.scroll_offset = 0
    /\ oled.text = Take(oled.current_text, VisibleChars)

\* The grammar as C10 states it
IsBase10Integer(s) ==
    LET body == IF s # <<>> /\ s[1] = "-" THEN Tail(s) ELSE s
    IN  body # <<>> /\ \A i \in 1..Len(body) : body[i] \in DigitSet

InStatedGrammar(data) ==
    \/ StartsWith(data, VolPrefix) /\ IsBase10Integer(Drop(data, 4))
    \/ StartsWith(data, MediaPrefix) /\ Len(Split(Drop(data, 6), "|")) >= 2
    \/ data = StopWord

\* C10 as stated: a line outside the grammar (VOL:<integer>, MEDIA: with two
\* segments or more, exactly STOP) leaves every field of the display state
\* unchanged, lines that begin with STOP and go on included.
C10_OutsideGrammarDiscarded ==
    (ev.op = "serial" /\ ~InStatedGrammar(ev.data)) => oled = ev.pre

\* C10 as amended: a line that does not begin with STOP and is neither VOL:
\* followed by an integer nor MEDIA: followed by two segments or more is
\* discarded; a line that begins with STOP is applied as Stop whatever follows
\* the four letters (is_playing cleared, the ready string queued).
C10_DiscardedUnlessStopPrefix ==
    /\ (ev.op = "serial" /\ ~InStatedGrammar(ev.data)
            /\ ~StartsWith(ev.data, StopWord)) => oled = ev.pre
    /\ (ev.op = "serial" /\ StartsWith(ev.data, StopWord)) =>
          oled = [ev.pre EXCEPT !.is_playing = FALSE, !.current_text = Ready]

\* STOPPED arrived while a banner was playing and stopped it
C10_Witness ==
    /\ AfterSerial(L_Stopped)
    /\ ev.pre.is_playing
    /\ ~oled.is_playing
    /\ oled.current_text = Ready
    /\ ev.pre.current_text # Ready

\* a malformed line arrived while a banner was playing and changed nothing
C10_WitnessDiscard ==
    /\ ev.op = "serial"
    /\ ev.data \in {L_OneSegment, L_VolBad, L_VolEmpty, L_Unknown}
    /\ ev.pre.is_playing
    /\ oled = ev.pre

\* C11: STOP applied to a reachable display state clears is_playing, queues the
\* ready string and leaves every other field as it was; applied again with
\* nothing in between it leaves the state the first application left.
C11_StopIdempotent ==
    /\ s_stage \in {"once", "twice"} =>
          s_once = [oled EXCEPT !.is_playing = FALSE, !.current_text = Ready]
    /\ s_stage = "twice" => s_twice = s_once

\* STOP was applied twice while a banner was playing behind the volume display
C11_Witness ==
    /\ s_stage = "twice"
    /\ oled.is_playing
    /\ oled.current_text # Ready
    /\ oled.showing_volume
    /\ ~s_twice.is_playing
    /\ s_twice.current_text = Ready
    /\ s_twice.showing_volume

\* a Tick has just rendered a banner longer than the label
RenderedLong ==
    /\ AfterTick
    /\ Len(oled.current_text) > VisibleChars
    /\ oled.display_on
    /\ ~oled.showing_volume

\* the 20 characters from offset on of the text padded with 5 spaces, going
\* round from the padded tail to the start of the text
WrappedWindow(full_text, offset) ==
    LET padded == full_text \o Spaces(ScrollGap)
    IN  [i \in 1..VisibleChars |-> padded[((offset + i - 1) % Len(padded)) + 1]]

\* C13 as stated: a Tick that renders a banner longer than 20 characters puts
\* exactly 20 characters on the label at every scroll_offset in 0..L+4, the
\* window of the padded text that starts at scroll_offset and wraps round.
C13_MarqueeWindow ==
    (RenderedLong /\ oled.scroll_offset \in
            0..(Len(oled.current_text) + ScrollGap - 1)) =>
        /\ Len(oled.text) = VisibleChars
        /\ oled.text = WrappedWindow(oled.current_text, oled.scroll_offset)

\* C14: display_on goes from true to false only in a Tick that finds is_playing
\* false and last_activity more than 30 s back; a line, whatever it holds (VOL,
\* MEDIA with either flag, STOP, malformed), leaves a display that is on on.
C14_SleepOnlyByInactivity ==
    /\ (ev.pre.display_on /\ ~oled.display_on) =>
          /\ ev.op = "tick"
          /\ ~ev.pre.is_playing
          /\ ev.at - ev.pre.last_activity > SleepTimeout
    /\ (ev.op = "serial" /\ ev.pre.display_on) => oled.display_on

\* a Tick put the display to sleep more than 30 s after a message woke it
C14_Witness ==
    /\ AfterTick
    /\ ev.pre.display_on
    /\ ~oled.display_on
    /\ ev.pre.last_activity > 0
    /\ ev.at - ev.pre.last_activity > SleepTimeout

\* this Tick found the volume shown for more than 3 s on a display that is on,
\* and did not end in the inactivity check
VolumeTimeoutTick ==
    /\ AfterTick
    /\ ev.pre.showing_volume
    /\ ev.pre.display_on
    /\ ev.at - ev.pre.last_vol_time > VolTimeout
    /\ ~(~ev.pre.is_playing /\ ev.at - ev.pre.last_activity > SleepTimeout)

\* C15 as stated: the Tick that performs the volume-display timeout ends with
\* showing_volume false and scroll_offset 0 and puts the beginning of
\* current_text on the label, its first 20 characters when it is longer.
C15_VolumeTimeoutRestarts ==
    VolumeTimeoutTick =>
        /\ ~oled.showing_volume
        /\ oled.scroll_offset = 0
        /\ oled.text = Take(oled.current_text, VisibleChars)

\* the line just handled was a MEDIA message with playing flag 1
AfterPlayingMedia ==
    /\ ev.op = "serial"
    /\ Decode(ev.data).kind = "media"
    /\ Decode(ev.data).is_playing

\* C16: a MEDIA message with playing flag 1 handled while the display is on and
\* shows the volume changes is_playing, current_text and last_activity and
\* nothing else (showing_volume, last_vol_time, scroll_offset and the volume
\* string on the label stay); no line ends showing_volume, the label holds the
\* volume string (or nothing, after a sleep) for as long as showing_volume is
\* set, and only a Tick more than 3 s after the VOL message clears it.
C16_MediaKeepsVolumeShown ==
    /\ (AfterPlayingMedia /\ ev.pre.display_on /\ ev.pre.showing_volume) =>
          oled = [ev.pre EXCEPT
                    !.is_playing = TRUE,
                    !.current_text = Banner(Decode(ev.data).title,
                                            Decode(ev.data).artist),
                    !.last_activity = ev.at]
    /\ (ev.op = "serial" /\ ev.pre.showing_volume) => oled.showing_volume
    /\ oled.showing_volume => (IsVolumeText(oled.text) \/ oled.text = <<>>)
    /\ (ev.pre.showing_volume /\ ~oled.showing_volume) =>
          /\ ev.op = "tick"
          /\ ev.at - ev.pre.last_vol_time > VolTimeout

\* MEDIA:1|Song|Art arrived under the volume display: the banner is queued, the
\* label still shows the volume
C16_Witness ==
    /\ AfterSerial(L_MediaArt)
    /\ ev.pre.display_on
    /\ ev.pre.showing_volume
    /\ ~ev.pre.is_playing
    /\ oled.showing_volume
    /\ IsVolumeText(oled.text)
    /\ oled.current_text = Banner(TitleSong, ArtistArt)
    /\ oled.scroll_offset = ev.pre.scroll_offset

\* C20 as stated: whenever a Tick renders a banner longer than 20 characters the
\* cursor is inside the padded text, 0 <= scroll_offset < L+5, and the label is
\* not empty, also after a MEDIA message has put a shorter long banner in the
\* place of the one that was scrolling.
C20_CursorInsideText ==
    RenderedLong =>
        /\ 0 <= oled.scroll_offset
        /\ oled.scroll_offset < Len(oled.current_text) + ScrollGap
        /\ oled.text # <<>>

----------------------------------------------------------------------------
(* Claims about the companion and the codec *)

EndsWithOneLF(w) == w # <<>> /\ IndexOf(w, LF) = Len(w)

\* C2 as stated: every write of send_to_macropad puts exactly one line on the
\* transport, ended by a single line feed.
C2_WritesAreLines == \A i \in 1..Len(wire) : EndsWithOneLF(wire[i])

IsOk(e) == e.ok
IsComplete(e) == ~e.pending

\* the successful volume readings whose pass of the loop is complete
Readings == SelectSeq(SelectSeq(vlog, IsComplete), IsOk)

\* C5: reading i of the successful volume readings has a VOL message handed to
\* send_to_macropad exactly when it is the first or differs from reading i-1,
\* and that message carries the reading.
C5_ChangeDetector ==
    \A i \in 1..Len(Readings) :
        /\ (Readings[i].sent # <<>>) <=>
              (i = 1 \/ Readings[i].r # Readings[i - 1].r)
        /\ Readings[i].sent # <<>> =>
              /\ StartsWith(Readings[i].sent, VolPrefix)
              /\ ParseInt(Drop(Readings[i].sent, 4)) =
                    [ok |-> TRUE, val |-> Readings[i].r]

\* the readings 50, 50, 51, 51, 50 gave VOL:50, VOL:51, VOL:50
C5_Witness ==
    /\ Len(Readings) = 5
    /\ [i \in 1..5 |-> Readings[i].r] = <<50, 50, 51, 51, 50>>
    /\ [i \in 1..5 |-> Readings[i].sent] =
          <<VolLine(50), <<>>, VolLine(51), <<>>, VolLine(50)>>

\* the media polls whose pass of the loop is complete
MediaPolls == SelectSeq(mlog, IsComplete)

\* C6: a poll that finds no session hands STOP to send_to_macropad when the poll
\* before it found a session, and nothing when the poll before it found none or
\* it is the first poll; STOP is never sent while the last-sent media state is
\* empty (at startup, or after a poll that returned no media).
C6_OneStopPerAbsence ==
    /\ (mpc = "send" /\ mcur = <<>>) => last_media_info # <<>>
    /\ \A i \in 1..Len(MediaPolls) :
            /\ (MediaPolls[i].read = "absent" /\ i = 1) => MediaPolls[i].sent = <<>>
            /\ (MediaPolls[i].read = "absent" /\ i > 1) =>
                  /\ MediaPolls[i - 1].read = "session" =>
                        MediaPolls[i].sent = StopWord
                  /\ MediaPolls[i - 1].read = "absent" =>
                        MediaPolls[i].sent = <<>>
            /\ MediaPolls[i].sent = StopWord =>
                  i > 1 /\ MediaPolls[i - 1].read = "session"

\* a session, then three polls without one: MEDIA, STOP, nothing, nothing
C6_Witness ==
    /\ Len(MediaPolls) = 4
    /\ [i \in 1..4 |-> MediaPolls[i].read] =
          <<"session", "absent", "absent", "absent">>
    /\ MediaPolls[1].sent = MediaLine(MediaInfo(Song))
    /\ MediaPolls[2].sent = StopWord
    /\ MediaPolls[3].sent = <<>>
    /\ MediaPolls[4].sent = <<>>

\* what a message is after the companion's truncation of title and artist
Truncated(m) ==
    IF m.kind = "media"
    THEN [m EXCEPT !.title = Take(m.title, TitleMax),
                   !.artist = Take(m.artist, ArtistMax)]
    ELSE m

NoPipe(s) == IndexOf(s, "|") = 0

\* C9 as stated: every message the companion composes, titles and artists with
\* a pipe included, decodes to itself with the title cut to 50 characters and
\* the artist to 30.
C9_RoundTrip == c_stage = "decoded" => c_out = Truncated(c_in)

\* C9 as amended: the same for VOL:<v> with v in 0..100, for STOP, and for the
\* Media messages whose title has no pipe in its first 50 characters and whose
\* artist has none in its first 30.
C9_RoundTripWithoutPipe ==
    (/\ c_stage = "decoded"
     /\ NoPipe(Truncated(c_in).title)
     /\ NoPipe(Truncated(c_in).artist)) => c_out = Truncated(c_in)

\* a title of 51 letters and an artist of 31 came back cut to 50 and 30
C9_Witness ==
    /\ c_stage = "decoded"
    /\ c_in.kind = "media"
    /\ Len(c_in.title) > TitleMax
    /\ Len(c_in.artist) > ArtistMax
    /\ NoPipe(c_in.title)
    /\ c_out.kind = "media"
    /\ Len(c_out.title) = TitleMax
    /\ Len(c_out.artist) = ArtistMax

\* C12 as stated: a poll of monitor_media in which get_media_info fails while
\* the last-sent media state is not empty hands nothing to send_to_macropad, STOP
\* least of all, and leaves last_media_info as it was.
C12_FailedReadSendsNothing ==
    \A i \in 1..Len(mlog) :
        (mlog[i].read = "failed" /\ mlog[i].before # <<>>) =>
            /\ ~mlog[i].pending
            /\ mlog[i].sent = <<>>
            /\ i = Len(mlog) => last_media_info = mlog[i].before

\* C17 as stated: every call of serial_conn.write, from the volume thread or
\* from the media loop, finds the connection open; none comes after run /
\* run_async has closed it.
C17_WritesWhileOpen ==
    /\ \A i \in 1..Len(vlog) : vlog[i].sent # <<>> => vlog[i].conn = "open"
    /\ \A i \in 1..Len(mlog) : mlog[i].sent # <<>> => mlog[i].conn = "open"

IsWritten(e) == e.written

\* the level of the last VOL message that went through serial_conn.write, the
\* unset sentinel when there is none
LastWritten ==
    LET w == SelectSeq(vlog, IsWritten)
    IN  IF w = <<>> THEN Unset ELSE w[Len(w)].r

\* C19 as stated: last_volume is the unset sentinel while no VOL message has been
\* written to the transport and the level of the last one written afterwards; a
\* poll whose write fails does not advance it.
C19_LastVolumeIsLastWritten == last_volume = LastWritten

LoopsStarted == running /\ spc = "running"

\* C18: while running is true no read failure and no write failure ends a loop
\* (each is at its loop head or at its send); a pass of one loop, failed or not,
\* leaves the other loop's last-sent state and position alone; and with both
\* loops scheduled fairly each goes on polling: whatever has failed so far, its
\* next poll comes for as long as running is true (and polls are left in the run).
C18_FaultIsolation ==
    /\ [](LoopsStarted =>
            /\ vpc \in {"loop", "send"}
            /\ mpc \in {"off", "loop", "send"})
    /\ [][/\ vlog' # vlog => UNCHANGED <<last_media_info, mpc, mcur, mlog>>
          /\ mlog' # mlog => UNCHANGED <<last_volume, vpc, vcur, vlog>>]_vars
    /\ \A n \in 0..MaxFairPolls :
          (LoopsStarted /\ FairPollsLeft
                /\ Len(SelectSeq(vlog, IsComplete)) = n) ~>
              (\/ ~running
               \/ ~FairPollsLeft
               \/ Len(SelectSeq(vlog, IsComplete)) > n)
    /\ \A n \in 0..MaxFairPolls :
          (LoopsStarted /\ FairPollsLeft /\ mpc # "off"
                /\ Len(SelectSeq(mlog, IsComplete)) = n) ~>
              (\/ ~running
               \/ ~FairPollsLeft
               \/ Len(SelectSeq(mlog, IsComplete)) > n)

\* a volume reading has failed and a media write has failed, the volume poll
\* after them has been written, and both loops are at their loop head with
\* running true
C18_Witness ==
    /\ LoopsStarted
    /\ vpc = "loop" /\ mpc = "loop"
    /\ Len(vlog) = 2 /\ Len(mlog) = 1
    /\ ~vlog[1].ok
    /\ mlog[1].sent # <<>> /\ ~mlog[1].written
    /\ vlog[2].written

====
